---- MODULE Spec2Model ----
(***************************************************************************)
(* Model of mm.c: an explicit-free-list allocator with boundary tags, LIFO *)
(* insertion, best-fit search and an in-place realloc.                     *)
(*                                                                         *)
(* The arena is an array of 4-byte words (word_t).  Every pointer of the   *)
(* code is modelled by its word address; mem maps the word addresses of    *)
(* the arena, HeapBase .. mem_brk-1, to the int32 stored there.  Sizes are *)
(* in bytes, as in the code.                                               *)
(***************************************************************************)
EXTENDS Integers, Sequences, FiniteSets, TLC

VARIABLES mem,           \* the arena: word address -> word
          mem_brk,       \* first word address past the arena
          bt_heap_last,  \* boundary tag of the last block
          live           \* payload pointers handed out and not yet released

vars == <<mem, mem_brk, bt_heap_last, live>>

\* ---- bounds of the model ------------------------------------------------
MaxUnits == 3            \* mem_sbrk fails beyond 48 + 16 * MaxUnits bytes of arena

\* ---- program constants --------------------------------------------------
WSIZE == 4
ALIGNMENT == 16
FREE == 0
USED == 1
NULL == 0
SBRK_FAILED == -1
HeapBase == 4            \* word address of the first byte of the arena

\* request sizes offered to malloc and to realloc (bytes)
Sizes == {0, 1, 24}
ReSizes == {0, 1, 24}
\* calloc arguments
Nmembs == {0, 2}
ElemSizes == {3, 12}
\* what brand-new arena memory may hold
FreshVals == {0}
\* the pattern a caller writes into word i of a payload
Pattern(i) == 1000 + i

\* ---- heap values ----------------------------------------------------------
Heap(m, l, b) == [mem |-> m, bt_heap_last |-> l, brk |-> b]

\* x | f for x >= 0 and f in {0, 1}
BitOr1(x, f) == IF x % 2 = 1 THEN x ELSE x + f

\* ---- boundary tag handling ----------------------------------------------
bt_size(m, bt) == m[bt] - (m[bt] % 2)

bt_used(m, bt) == m[bt] % 2 = 1

bt_free(m, bt) == m[bt] % 2 = 0

\* bt_footer without "- sizeof(word_t)": the footer lands on the next header.
bt_footer_nosub(m, bt) == bt + (bt_size(m, bt) \div WSIZE)

bt_footer(m, bt) == bt + ((bt_size(m, bt) - WSIZE) \div WSIZE)

bt_fromptr(ptr) == ptr - 1

bt_make(m, bt, size, flags) == [m EXCEPT ![bt] = BitOr1(size, flags)]

bt_payload(bt) == bt + 1

bt_next(m, bt) == IF bt_size(m, bt) = 0 THEN NULL ELSE bt + (bt_size(m, bt) \div 4)

\* heap_start and bt_heap_start as mm_init leaves them
heap_start == HeapBase + 4

bt_heap_start == bt_fromptr(heap_start)

bt_prev(m, bt) ==
  IF bt_payload(bt) = bt_fromptr(heap_start) THEN NULL
  ELSE bt - (bt_size(m, bt - 1) \div 4)

\* ---- LIFO handling --------------------------------------------------------
lifo_get_next(m, bt) == m[bt + 1]

lifo_get_prev(m, bt) == m[bt + 2]

lifo_put_next(m, bt, p) == [m EXCEPT ![bt + 1] = p]

lifo_put_prev(m, bt, p) == [m EXCEPT ![bt + 2] = p]

lifo_create_next(m, current_bt, next_bt) == lifo_put_next(m, current_bt, next_bt - current_bt)

lifo_create_prev(m, current_bt, prev_bt) == lifo_put_prev(m, current_bt, prev_bt - current_bt)

lifo_next(m, bt) ==
  IF lifo_get_next(m, bt) = 0 THEN NULL ELSE bt + lifo_get_next(m, bt)

lifo_prev(m, bt) ==
  IF lifo_get_prev(m, bt) = 0 THEN NULL ELSE bt + lifo_get_prev(m, bt)

\* Only the next-offset is stored: the prev-offset of next_bt keeps its value.
lifo_connect_oneway(m, current_bt, next_bt) ==
  lifo_create_next(m, current_bt, next_bt)

lifo_connect(m, current_bt, next_bt) ==
  lifo_create_prev(lifo_create_next(m, current_bt, next_bt), next_bt, current_bt)

\* lifo_add without lifo_create_next(bt_heap_start, current_bt): the head
\* sentinel keeps pointing at the old first node.
lifo_add_nohead(m, current_bt) ==
  lifo_create_prev(
    lifo_create_prev(
      lifo_create_next(m, current_bt, lifo_next(m, bt_heap_start)),
      current_bt, bt_heap_start),
    lifo_next(m, bt_heap_start), current_bt)

\* The block is inserted before the tail sentinel: first in, first out.
lifo_add_tail(m, current_bt) ==
  lifo_connect(lifo_connect(m, lifo_prev(m, bt_heap_start + 4), current_bt),
               current_bt, bt_heap_start + 4)

\* next_bt is read once, before the four stores.
lifo_add(m, current_bt) ==
  lifo_create_prev(
    lifo_create_next(
      lifo_create_prev(
        lifo_create_next(m, current_bt, lifo_next(m, bt_heap_start)),
        current_bt, bt_heap_start),
      bt_heap_start, current_bt),
    lifo_next(m, bt_heap_start), current_bt)

\* "lifo_connect(lifo_prev(bt), lifo_next(bt))": block bt leaves the list.
lifo_unlink(m, bt) == lifo_connect(m, lifo_prev(m, bt), lifo_next(m, bt))

\* "lifo_connect(lifo_prev(bt), bt_new); lifo_connect(bt_new, lifo_next(bt))":
\* bt_new takes the place of bt in the list; link is the second call.
lifo_link_next(m, bt, bt_new) == lifo_connect(m, bt_new, lifo_next(m, bt))

lifo_replace(m, bt, bt_new) ==
  lifo_link_next(lifo_connect(m, lifo_prev(m, bt), bt_new), bt, bt_new)

\* "bt_make(bt_footer(bt), size, flags)"
bt_make_footer(m, bt, size, flags) == bt_make(m, bt_footer(m, bt), size, flags)

\* "bt_make(bt, size, flags); bt_make(bt_footer(bt), size, flags)"
bt_make_both(m, bt, size, flags) ==
  bt_make_footer(bt_make(m, bt, size, flags), bt, size, flags)

\* ---- coalesce -------------------------------------------------------------
\* The update of bt_heap_last left out.
last_after_merge_stale(last, absorbed, merged) == last

\* "if (bt_heap_last == absorbed) bt_heap_last = merged": the topmost pointer
\* after a merge that ends at block absorbed and starts at block merged.
last_after_merge(last, absorbed, merged) == IF last = absorbed THEN merged ELSE last

\* Result of coalesce: the heap, and ptr, the payload of the merged block.
Coalesced(m, l, b, ptr) == [mem |-> m, bt_heap_last |-> l, brk |-> b, ptr |-> ptr]

coalesce_case1(h, ptr, current_bt) ==
  Coalesced(lifo_add(h.mem, current_bt), h.bt_heap_last, h.brk, ptr)

coalesce_case2(h, ptr, current_bt, next_bt, size) ==
  Coalesced(
    lifo_add(bt_make_both(lifo_unlink(h.mem, next_bt), current_bt, size, FREE),
             current_bt),
    last_after_merge(h.bt_heap_last, next_bt, current_bt), h.brk, ptr)

coalesce_case3(h, current_bt, prev_bt, size) ==
  Coalesced(
    lifo_add(bt_make(bt_make_footer(lifo_unlink(h.mem, prev_bt), current_bt, size, FREE),
                     prev_bt, size, FREE),
             prev_bt),
    last_after_merge(h.bt_heap_last, current_bt, prev_bt), h.brk, bt_payload(prev_bt))

coalesce_case4(h, prev_bt, next_bt, size) ==
  Coalesced(
    lifo_add(bt_make_footer(bt_make(lifo_unlink(lifo_unlink(h.mem, prev_bt), next_bt),
                                    prev_bt, size, FREE),
                            next_bt, size, FREE),
             prev_bt),
    last_after_merge(h.bt_heap_last, next_bt, prev_bt), h.brk, bt_payload(prev_bt))

\* The successor is never merged: cases 2 and 4 are taken as cases 1 and 3.
coalesce_at_prevonly(h, ptr, current_bt, prev_bt, next_bt) ==
  IF bt_used(h.mem, prev_bt)
  THEN coalesce_case1(h, ptr, current_bt)
  ELSE coalesce_case3(h, current_bt, prev_bt,
                      bt_size(h.mem, current_bt) + bt_size(h.mem, prev_bt))

coalesce_at(h, ptr, current_bt, prev_bt, next_bt) ==
  IF bt_used(h.mem, prev_bt)
     /\ (h.bt_heap_last = current_bt \/ bt_used(h.mem, next_bt))
  THEN coalesce_case1(h, ptr, current_bt)
  ELSE IF bt_used(h.mem, prev_bt)
          /\ (h.bt_heap_last # current_bt /\ bt_free(h.mem, next_bt))
  THEN coalesce_case2(h, ptr, current_bt, next_bt,
                      bt_size(h.mem, current_bt) + bt_size(h.mem, next_bt))
  ELSE IF bt_free(h.mem, prev_bt)
          /\ (h.bt_heap_last = current_bt \/ bt_used(h.mem, next_bt))
  THEN coalesce_case3(h, current_bt, prev_bt,
                      bt_size(h.mem, current_bt) + bt_size(h.mem, prev_bt))
  ELSE coalesce_case4(h, prev_bt, next_bt,
                      bt_size(h.mem, current_bt) + bt_size(h.mem, prev_bt)
                        + bt_size(h.mem, next_bt))

coalesce(h, ptr) ==
  coalesce_at(h, ptr, bt_fromptr(ptr), bt_prev(h.mem, bt_fromptr(ptr)),
              bt_next(h.mem, bt_fromptr(ptr)))

\* ---- the growth primitive -----------------------------------------------
\* mem_sbrk(incr): extends the arena by incr bytes and returns the old break,
\* or fails (ok = FALSE) and changes nothing.  fresh is what the new words hold.
mem_sbrk(h, incr, ok, fresh) ==
  IF ~ok
  THEN [mem |-> h.mem, brk |-> h.brk, ret |-> SBRK_FAILED]
  ELSE [mem |-> [a \in HeapBase..(h.brk + (incr \div WSIZE) - 1) |->
                   IF a < h.brk THEN h.mem[a] ELSE fresh],
        brk |-> h.brk + (incr \div WSIZE), ret |-> h.brk]

\* ---- mm_init ----------------------------------------------------------------
\* The body of mm_init after mem_sbrk returned s; hs is heap_start before
\* "heap_start += 4".
mm_init_at(s, hs) ==
  Heap(
    lifo_create_prev(
      [bt_make(
         bt_make(
           [lifo_create_next(
              bt_make(bt_make(s.mem, hs + 3, ALIGNMENT, USED), hs + 6, ALIGNMENT, USED),
              hs + 3, hs + 7)
            EXCEPT ![hs + 5] = 0],
           hs + 7, ALIGNMENT, USED),
         hs + 10, ALIGNMENT, USED)
       EXCEPT ![hs + 8] = 0],
      hs + 7, hs + 3),
    bt_fromptr(hs + 4) + 4, s.brk)

\* The heap after a successful mm_init.
mm_init_sbrk(s) == mm_init_at(s, s.ret)

mm_init(fresh) == mm_init_sbrk(mem_sbrk(Heap(<<>>, NULL, HeapBase), 12 * WSIZE, TRUE, fresh))

\* ---- malloc -----------------------------------------------------------------
\* The while loop of find_fit.  fuel counts the iterations left before the
\* scan is declared endless (DIVERGED): an acyclic list has fewer nodes than
\* the arena has words.  The code has no such counter.
DIVERGED == -2

\* First fit, the strategy the code compiles out: the first candidate is kept.
takes_first(m, current_block, result, result_size, reqsz) ==
  /\ bt_free(m, current_block) /\ bt_size(m, current_block) >= reqsz
  /\ result = NULL

\* Whether the scan replaces result by current_block.
takes(m, current_block, result, result_size, reqsz) ==
  /\ bt_free(m, current_block) /\ bt_size(m, current_block) >= reqsz
  /\ (result = NULL \/ result_size > bt_size(m, current_block))

RECURSIVE find_fit_loop(_, _, _, _, _, _)
find_fit_loop(m, current_block, result, result_size, reqsz, fuel) ==
  IF current_block = NULL THEN result
  ELSE IF fuel = 0 THEN DIVERGED
  ELSE IF takes(m, current_block, result, result_size, reqsz)
       THEN find_fit_loop(m, lifo_next(m, current_block), current_block,
                          bt_size(m, current_block), reqsz, fuel - 1)
       ELSE find_fit_loop(m, lifo_next(m, current_block), result, result_size,
                          reqsz, fuel - 1)

\* Best fit.
find_fit(m, reqsz) ==
  find_fit_loop(m, lifo_next(m, bt_heap_start), NULL, 0, reqsz,
                Cardinality(DOMAIN m))

\* The remainder is put at the front of the list with lifo_add in place of
\* taking the list position of bt.
place_split_front(h, bt, bt_new, asize, csize) ==
  Heap(lifo_add(bt_make_both(lifo_unlink(bt_make_both(h.mem, bt, asize, USED), bt),
                             bt_new, csize - asize, FREE),
                bt_new),
       IF bt = h.bt_heap_last THEN bt_new ELSE h.bt_heap_last, h.brk)

\* The branch csize - asize >= 16 of place: bt keeps asize bytes, bt_new is
\* the block after it.
place_split(h, bt, bt_new, asize, csize) ==
  Heap(bt_make_both(lifo_replace(bt_make_both(h.mem, bt, asize, USED), bt, bt_new),
                    bt_new, csize - asize, FREE),
       IF bt = h.bt_heap_last THEN bt_new ELSE h.bt_heap_last, h.brk)

\* The else branch of place.
place_whole(h, bt, csize) ==
  Heap(bt_make_both(lifo_unlink(h.mem, bt), bt, csize, USED), h.bt_heap_last, h.brk)

\* place: csize >= asize at every call, so the size_t difference never wraps.
\* bt_next(bt) is read after the header of bt holds asize.
place(h, bt, asize) ==
  IF bt_size(h.mem, bt) - asize >= 16
  THEN place_split(h, bt, bt_next(bt_make(h.mem, bt, asize, USED), bt), asize,
                   bt_size(h.mem, bt))
  ELSE place_whole(h, bt, bt_size(h.mem, bt))

\* An epilogue header (size 0, in use) is written after the new block, as in
\* allocators that end the arena with one.
extend_heap_sbrk_epilogue(h, s, round_size) ==
  IF s.ret = SBRK_FAILED
  THEN Coalesced(h.mem, h.bt_heap_last, h.brk, NULL)
  ELSE coalesce(Heap(bt_make(bt_make_both(s.mem, bt_fromptr(s.ret), round_size, FREE),
                             s.brk - 1, 0, USED),
                     bt_fromptr(s.ret), s.brk),
                s.ret)

\* "bt_heap_last = bt" moved before the test of mem_sbrk's answer.
extend_heap_sbrk_early(h, s, round_size) ==
  IF s.ret = SBRK_FAILED
  THEN Coalesced(h.mem, bt_fromptr(h.brk), h.brk, NULL)
  ELSE coalesce(Heap(bt_make_both(s.mem, bt_fromptr(s.ret), round_size, FREE),
                     bt_fromptr(s.ret), s.brk),
                s.ret)

\* extend_heap after mem_sbrk returned s.
extend_heap_sbrk(h, s, round_size) ==
  IF s.ret = SBRK_FAILED
  THEN Coalesced(h.mem, h.bt_heap_last, h.brk, NULL)
  ELSE coalesce(Heap(bt_make_both(s.mem, bt_fromptr(s.ret), round_size, FREE),
                     bt_fromptr(s.ret), s.brk),
                s.ret)

extend_heap_round(h, round_size, ok, fresh) ==
  extend_heap_sbrk(h, mem_sbrk(h, round_size, ok, fresh), round_size)

\* "(size + ALIGNMENT) & -ALIGNMENT": a size that is aligned already is rounded
\* up by one more unit.
extend_heap_over(h, size, ok, fresh) ==
  extend_heap_round(h, ((size + ALIGNMENT) \div ALIGNMENT) * ALIGNMENT, ok, fresh)

\* Result: the heap, ptr (NULL when mem_sbrk failed).
extend_heap(h, size, ok, fresh) ==
  extend_heap_round(h, ((size + ALIGNMENT - 1) \div ALIGNMENT) * ALIGNMENT, ok, fresh)

\* Rounding to 8 bytes in place of ALIGNMENT.
adjust_align8(size) ==
  IF size <= 8 THEN 16
  ELSE 8 * ((size + 8 + 8 - 1) \div 8)

\* The per-block overhead of 8 bytes left out of the rounding.
adjust_nooverhead(size) ==
  IF size <= 8 THEN 16
  ELSE ALIGNMENT * ((size + ALIGNMENT - 1) \div ALIGNMENT)

\* The block size malloc and realloc compute for a request of size bytes.
adjust(size) ==
  IF size <= 8 THEN 16
  ELSE ALIGNMENT * ((size + 8 + ALIGNMENT - 1) \div ALIGNMENT)

\* Results of malloc, realloc and calloc: the heap, ret (the pointer returned)
\* and sbrk: whether mem_sbrk was called and what it answered ("none", "ok",
\* "fail").
Result(m, l, b, ret, sbrk) ==
  [mem |-> m, bt_heap_last |-> l, brk |-> b, ret |-> ret, sbrk |-> sbrk]

Returns(h, ret, sbrk) == Result(h.mem, h.bt_heap_last, h.brk, ret, sbrk)

\* malloc after extend_heap returned e.
malloc_extended(h, e, asize) ==
  IF e.ptr = NULL
  THEN Returns(e, NULL, "fail")
  ELSE Returns(place(e, bt_fromptr(e.ptr), asize), bt_payload(bt_fromptr(e.ptr)), "ok")

\* malloc after find_fit returned bt.
malloc_fit(h, asize, bt, ok, fresh) ==
  IF bt # NULL
  THEN Returns(place(h, bt, asize), bt_payload(bt), "none")
  ELSE malloc_extended(h, extend_heap(h, asize, ok, fresh), asize)

malloc(h, size, ok, fresh) ==
  IF size = 0
  THEN Returns(h, NULL, "none")
  ELSE malloc_fit(h, adjust(size), find_fit(h.mem, adjust(size)), ok, fresh)

\* ---- free -------------------------------------------------------------------
AsHeap(c) == Heap(c.mem, c.bt_heap_last, c.brk)

free(h, ptr) ==
  IF ptr = NULL THEN h
  ELSE AsHeap(coalesce(
         Heap(bt_make_both(h.mem, bt_fromptr(ptr), bt_size(h.mem, bt_fromptr(ptr)), FREE),
              h.bt_heap_last, h.brk),
         ptr))

\* ---- realloc ----------------------------------------------------------------
\* memcpy of n bytes (n is a multiple of 4 at its one call site).
memcpy(m, dst, src, n) ==
  [a \in DOMAIN m |-> IF dst <= a /\ a < dst + (n \div WSIZE) THEN m[src + (a - dst)] ELSE m[a]]

\* The successor that realloc may grow into: next_bt, or NULL.
realloc_next(h, current_bt) ==
  IF current_bt # h.bt_heap_last /\ bt_free(h.mem, bt_next(h.mem, current_bt))
  THEN bt_next(h.mem, current_bt)
  ELSE NULL

\* The branch asize < old_size: shrink in place.  bt_new is the block after
\* the shrunk block.
realloc_shrink_split(h, old_ptr, current_bt, bt_new, asize, csize) ==
  Result(lifo_add(bt_make_both(bt_make_both(h.mem, current_bt, asize, USED),
                               bt_new, csize - asize, FREE),
                  bt_new),
         IF current_bt = h.bt_heap_last THEN bt_new ELSE h.bt_heap_last,
         h.brk, old_ptr, "none")

realloc_shrink(h, old_ptr, asize) ==
  IF bt_size(h.mem, bt_fromptr(old_ptr)) - asize >= 16
  THEN realloc_shrink_split(h, old_ptr, bt_fromptr(old_ptr),
         bt_next(bt_make(h.mem, bt_fromptr(old_ptr), asize, USED), bt_fromptr(old_ptr)),
         asize, bt_size(h.mem, bt_fromptr(old_ptr)))
  ELSE Returns(h, old_ptr, "none")

\* The branch next_bt != NULL && asize <= new_size: grow into the successor.
\* In the split, the header of current_bt is written first, the list is
\* relinked, then the footer of current_bt and the tags of bt_new are written.
realloc_grow_split(h, old_ptr, current_bt, bt_new, asize, next_bt, new_size) ==
  Result(bt_make_both(
           bt_make_footer(
             lifo_replace(bt_make(h.mem, current_bt, asize, USED), next_bt, bt_new),
             current_bt, asize, USED),
           bt_new, new_size - asize, FREE),
         IF next_bt = h.bt_heap_last THEN bt_new ELSE h.bt_heap_last,
         h.brk, old_ptr, "none")

\* The successor is absorbed without "lifo_connect(lifo_prev(next_bt),
\* lifo_next(next_bt))": it stays on the free list.
realloc_grow_whole_listed(h, old_ptr, current_bt, next_bt, new_size) ==
  Result(bt_make_both(h.mem, current_bt, new_size, USED),
         IF next_bt = h.bt_heap_last THEN current_bt ELSE h.bt_heap_last,
         h.brk, old_ptr, "none")

realloc_grow_whole(h, old_ptr, current_bt, next_bt, new_size) ==
  Result(bt_make_both(lifo_unlink(h.mem, next_bt), current_bt, new_size, USED),
         IF next_bt = h.bt_heap_last THEN current_bt ELSE h.bt_heap_last,
         h.brk, old_ptr, "none")

realloc_grow(h, old_ptr, asize, next_bt, new_size) ==
  IF new_size - asize >= 16
  THEN realloc_grow_split(h, old_ptr, bt_fromptr(old_ptr),
         bt_next(bt_make(h.mem, bt_fromptr(old_ptr), asize, USED), bt_fromptr(old_ptr)),
         asize, next_bt, new_size)
  ELSE realloc_grow_whole(h, old_ptr, bt_fromptr(old_ptr), next_bt, new_size)

\* memcpy one word short.
realloc_copy_short(r, old_ptr, old_size) ==
  Returns(free(Heap(memcpy(r.mem, r.ret, old_ptr, old_size - 8 - WSIZE),
                    r.bt_heap_last, r.brk),
               old_ptr),
          r.ret, r.sbrk)

\* "memcpy(new_ptr, old_ptr, old_size - 8); free(old_ptr); return new_ptr",
\* r being the result of malloc(size).
realloc_copy(r, old_ptr, old_size) ==
  Returns(free(Heap(memcpy(r.mem, r.ret, old_ptr, old_size - 8),
                    r.bt_heap_last, r.brk),
               old_ptr),
          r.ret, r.sbrk)

\* The last branch, r being the result of malloc(size).
realloc_relocated(r, old_ptr, old_size) ==
  IF r.ret = NULL
  THEN Returns(r, NULL, r.sbrk)
  ELSE realloc_copy(r, old_ptr, old_size)

realloc_relocate(h, old_ptr, size, old_size, ok, fresh) ==
  realloc_relocated(malloc(h, size, ok, fresh), old_ptr, old_size)

\* "asize < new_size" in place of "asize <= new_size": a successor that fits
\* exactly is not taken.
realloc_resize_strict(h, old_ptr, size, asize, old_size, next_bt, new_size, ok, fresh) ==
  IF asize = old_size
  THEN Returns(h, old_ptr, "none")
  ELSE IF asize < old_size
  THEN realloc_shrink(h, old_ptr, asize)
  ELSE IF next_bt # NULL /\ asize < new_size
  THEN realloc_grow(h, old_ptr, asize, next_bt, new_size)
  ELSE realloc_relocate(h, old_ptr, size, old_size, ok, fresh)

\* The decision of realloc among its four branches.
realloc_resize(h, old_ptr, size, asize, old_size, next_bt, new_size, ok, fresh) ==
  IF asize = old_size
  THEN Returns(h, old_ptr, "none")
  ELSE IF asize < old_size
  THEN realloc_shrink(h, old_ptr, asize)
  ELSE IF next_bt # NULL /\ asize <= new_size
  THEN realloc_grow(h, old_ptr, asize, next_bt, new_size)
  ELSE realloc_relocate(h, old_ptr, size, old_size, ok, fresh)

\* new_size as realloc computes it for the successor next_bt.
realloc_new_size(h, current_bt, next_bt) ==
  IF next_bt # NULL
  THEN bt_size(h.mem, current_bt) + bt_size(h.mem, next_bt)
  ELSE 0

\* "if (size == 0) return NULL;" without the call of free.
realloc_nofree(h, old_ptr, size, ok, fresh) ==
  IF size = 0
  THEN Returns(h, NULL, "none")
  ELSE IF old_ptr = NULL
  THEN malloc(h, size, ok, fresh)
  ELSE realloc_resize(h, old_ptr, size, adjust(size),
                      bt_size(h.mem, bt_fromptr(old_ptr)),
                      realloc_next(h, bt_fromptr(old_ptr)),
                      realloc_new_size(h, bt_fromptr(old_ptr),
                                       realloc_next(h, bt_fromptr(old_ptr))),
                      ok, fresh)

realloc(h, old_ptr, size, ok, fresh) ==
  IF size = 0
  THEN Returns(free(h, old_ptr), NULL, "none")
  ELSE IF old_ptr = NULL
  THEN malloc(h, size, ok, fresh)
  ELSE realloc_resize(h, old_ptr, size, adjust(size),
                      bt_size(h.mem, bt_fromptr(old_ptr)),
                      realloc_next(h, bt_fromptr(old_ptr)),
                      realloc_new_size(h, bt_fromptr(old_ptr),
                                       realloc_next(h, bt_fromptr(old_ptr))),
                      ok, fresh)

\* ---- calloc -----------------------------------------------------------------
\* The word w with its k low-address bytes (little endian: low-order) zeroed.
ZeroLow(w, k) == w - (w % (256 ^ k))

\* memset(ptr, 0, n)
memset0(m, ptr, n) ==
  [a \in DOMAIN m |->
     IF a < ptr \/ WSIZE * (a - ptr) >= n THEN m[a]
     ELSE IF WSIZE * (a - ptr + 1) <= n THEN 0
     ELSE ZeroLow(m[a], n - WSIZE * (a - ptr))]

\* calloc after malloc(bytes) returned r.
calloc_fill(r, bytes) ==
  IF r.ret # NULL
  THEN Result(memset0(r.mem, r.ret, bytes), r.bt_heap_last, r.brk, r.ret, r.sbrk)
  ELSE r

\* "memset(new_ptr, 0, size)": one element zeroed in place of nmemb.
calloc_one(h, nmemb, size, ok, fresh) ==
  calloc_fill(malloc(h, nmemb * size, ok, fresh), size)

\* nmemb * size stays far below the width of size_t within the bounds.
calloc(h, nmemb, size, ok, fresh) ==
  calloc_fill(malloc(h, nmemb * size, ok, fresh), nmemb * size)

\* ---- the caller -------------------------------------------------------------
\* The number of payload words of the block of payload pointer p.
usable_words(m, p) == (bt_size(m, bt_fromptr(p)) \div WSIZE) - 2

\* The caller stores Pattern into every payload word of its block p.
write_pattern(m, p) ==
  [a \in DOMAIN m |->
     IF p <= a /\ a < p + usable_words(m, p) THEN Pattern(a - p) ELSE m[a]]

H == Heap(mem, bt_heap_last, mem_brk)

\* The arena limit of a specification: mem_sbrk fails beyond it.
Limit(units) == HeapBase + 12 + 4 * units

Init ==
  \E h \in {mm_init(fresh) : fresh \in FreshVals} :
    /\ mem = h.mem
    /\ mem_brk = h.brk
    /\ bt_heap_last = h.bt_heap_last
    /\ live = {}

\* What a call may do, given rT, its result when mem_sbrk succeeds, and rF, its
\* result when mem_sbrk fails: the environment lets mem_sbrk succeed only
\* within the limit, and may refuse whenever the call reaches mem_sbrk.
Outcomes(rT, rF, limit) ==
  (IF rT.brk <= limit THEN {rT} ELSE {}) \cup (IF rT.sbrk = "none" THEN {} ELSE {rF})

Malloc(sizes, limit) ==
  \E size \in sizes, fresh \in FreshVals :
    \E r \in Outcomes(malloc(H, size, TRUE, fresh), malloc(H, size, FALSE, fresh), limit) :
       /\ mem' = r.mem
       /\ mem_brk' = r.brk
       /\ bt_heap_last' = r.bt_heap_last
       /\ live' = IF r.ret # NULL THEN live \cup {r.ret} ELSE live

Free ==
  \E ptr \in live \cup {NULL} :
    \E f \in {free(H, ptr)} :
       /\ mem' = f.mem
       /\ mem_brk' = f.brk
       /\ bt_heap_last' = f.bt_heap_last
       /\ live' = live \ {ptr}

Realloc(ptrs, sizes, limit) ==
  \E ptr \in ptrs, size \in sizes, fresh \in FreshVals :
    \E r \in Outcomes(realloc(H, ptr, size, TRUE, fresh),
                      realloc(H, ptr, size, FALSE, fresh), limit) :
       /\ mem' = r.mem
       /\ mem_brk' = r.brk
       /\ bt_heap_last' = r.bt_heap_last
       /\ live' = IF size = 0 THEN live \ {ptr}
                  ELSE IF r.ret = NULL THEN live
                  ELSE (live \ {ptr}) \cup {r.ret}

Calloc(limit) ==
  \E nmemb \in Nmembs, size \in ElemSizes, fresh \in FreshVals :
    \E r \in Outcomes(calloc(H, nmemb, size, TRUE, fresh),
                      calloc(H, nmemb, size, FALSE, fresh), limit) :
       /\ mem' = r.mem
       /\ mem_brk' = r.brk
       /\ bt_heap_last' = r.bt_heap_last
       /\ live' = IF r.ret # NULL THEN live \cup {r.ret} ELSE live

Write ==
  \E p \in live :
    /\ mem' = write_pattern(mem, p)
    /\ UNCHANGED <<mem_brk, bt_heap_last, live>>

\* Spec: every sequence of malloc, free, realloc and calloc calls.
Next ==
  \/ Malloc(Sizes, Limit(MaxUnits))
  \/ Free
  \/ Realloc(live \cup {NULL}, ReSizes, Limit(MaxUnits))
  \/ Calloc(Limit(MaxUnits))

Spec == Init /\ [][Next]_vars

\* SpecData: the caller also writes into the blocks it holds.
NextData ==
  \/ Malloc(Sizes, Limit(MaxUnits))
  \/ Free
  \/ Realloc(live \cup {NULL}, ReSizes, Limit(MaxUnits))
  \/ Write

SpecData == Init /\ [][NextData]_vars

\* SpecZero: malloc, free and calloc, the caller writing into its blocks.
NextZero ==
  \/ Malloc(Sizes, Limit(MaxUnits))
  \/ Free
  \/ Calloc(Limit(MaxUnits))
  \/ Write

SpecZero == Init /\ [][NextZero]_vars

\* SpecCore: every sequence of malloc, free and realloc calls.
NextCore ==
  \/ Malloc(Sizes, Limit(MaxUnits))
  \/ Free
  \/ Realloc(live \cup {NULL}, ReSizes, Limit(MaxUnits))

SpecCore == Init /\ [][NextCore]_vars

\* ---- SpecTrip: rows of blocks, then released and shrunk -------------------
MaxTrip == 3             \* the blocks of an initial row

\* The requests of the row: blocks of 16 and 32 bytes.
TripSizes == {1, 24}

\* malloc(szs[1]), malloc(szs[2]), ...: ptrs are the blocks returned.
RECURSIVE AllocRow(_, _, _)
AllocRowNext(r, szs, ptrs) == AllocRow(AsHeap(r), szs, ptrs \cup {r.ret})

AllocRow(h, szs, ptrs) ==
  IF szs = <<>> THEN [h |-> h, ptrs |-> ptrs]
  ELSE AllocRowNext(malloc(h, Head(szs), TRUE, 0), Tail(szs), ptrs)

InitTrip ==
  \E n \in 1..MaxTrip :
    \E szs \in [1..n -> TripSizes] :
      \E a \in {AllocRow(mm_init(0), szs, {})} :
        /\ mem = a.h.mem
        /\ mem_brk = a.h.brk
        /\ bt_heap_last = a.h.bt_heap_last
        /\ live = a.ptrs

\* The caller releases its blocks or shrinks them to 16 bytes; the arena does
\* not grow.
NextTrip ==
  \/ Free
  \/ Realloc(live, {1}, mem_brk)

SpecTrip == InitTrip /\ [][NextTrip]_vars

\* ---- SpecFit: find_fit over free lists built by malloc and free -------------
MaxFree == 3             \* the free blocks of an initial free list

\* The requests that make the blocks to be freed: 32, 48 and 64 bytes.
FitReq == {24, 40, 56}

\* malloc(szs[1]), malloc(1), malloc(szs[2]), malloc(1), ...: the blocks to be
\* freed (ptrs), each followed by a 16-byte block that stays in use (seps).
RECURSIVE AllocAll(_, _, _, _)
AllocSep(r2, szs, ptrs, seps) == AllocAll(AsHeap(r2), szs, ptrs, seps \cup {r2.ret})

AllocOne(r1, szs, ptrs, seps) ==
  AllocSep(malloc(AsHeap(r1), 1, TRUE, 0), szs, Append(ptrs, r1.ret), seps)

AllocAll(h, szs, ptrs, seps) ==
  IF szs = <<>> THEN [h |-> h, ptrs |-> ptrs, seps |-> seps]
  ELSE AllocOne(malloc(h, Head(szs), TRUE, 0), Tail(szs), ptrs, seps)

\* free(ptrs[ord[1]]), free(ptrs[ord[2]]), ...
RECURSIVE FreeAll(_, _, _)
FreeAll(h, ptrs, ord) ==
  IF ord = <<>> THEN h
  ELSE FreeAll(free(h, ptrs[Head(ord)]), ptrs, Tail(ord))

Orders(n) == {o \in [1..n -> 1..n] : \A i, j \in 1..n : o[i] = o[j] => i = j}

InitFit ==
  \E n \in 1..MaxFree :
    \E szs \in [1..n -> FitReq], ord \in Orders(n) :
      \E a \in {AllocAll(mm_init(0), szs, <<>>, {})} :
        \E h \in {FreeAll(a.h, a.ptrs, ord)} :
          /\ mem = h.mem
          /\ mem_brk = h.brk
          /\ bt_heap_last = h.bt_heap_last
          /\ live = a.seps

\* malloc calls that are served from the free list (no arena growth), while
\* the caller holds at most MaxFree blocks.
NextFit ==
  /\ Cardinality(live) <= MaxFree
  /\ Malloc({1} \cup FitReq, mem_brk)

SpecFit == InitFit /\ [][NextFit]_vars

\* ==== the properties ==========================================================
\* The properties read the arena with definitions of their own, TagSize and
\* TagUsed, and not through the operators that model the code.
TagSize(w) == w - (w % 2)

TagUsed(w) == w % 2 = 1

HeadSentinel == HeapBase + 3

TailSentinel == HeapBase + 7

\* The walk by address from block bt to block last: the headers met, and ok,
\* whether the walk arrived at last.
RECURSIVE WalkFrom(_, _, _, _)
WalkFrom(m, bt, last, fuel) ==
  IF bt \notin DOMAIN m \/ fuel = 0 THEN [ok |-> FALSE, blocks |-> <<>>]
  ELSE IF bt = last THEN [ok |-> TRUE, blocks |-> <<bt>>]
  ELSE IF TagSize(m[bt]) <= 0 THEN [ok |-> FALSE, blocks |-> <<bt>>]
  ELSE LET w == WalkFrom(m, bt + (TagSize(m[bt]) \div 4), last, fuel - 1)
       IN [ok |-> w.ok, blocks |-> <<bt>> \o w.blocks]

Walk(h) == WalkFrom(h.mem, HeadSentinel, h.bt_heap_last, Cardinality(DOMAIN h.mem))

\* The headers of the blocks of the arena, in address order.
Blocks(h) == Walk(h).blocks

\* The elements of sequence s.
Range(s) == {s[i] : i \in DOMAIN s}

BlockSet(h) == Range(Blocks(h))

FooterOf(m, b) == b + (TagSize(m[b]) \div 4) - 1

IsSentinel(b) == b \in {HeadSentinel, TailSentinel}

\* The free blocks of the arena: non-sentinel blocks whose in-use flag is false.
FreeBlocks(h) == {b \in BlockSet(h) : ~IsSentinel(b) /\ ~TagUsed(h.mem[b])}

\* The path of next-offsets from node bt: the nodes met, and ok, whether the
\* path ends at a node whose next-offset is 0.
RECURSIVE ListFrom(_, _, _)
ListFrom(m, bt, fuel) ==
  IF bt \notin DOMAIN m \/ (bt + 1) \notin DOMAIN m \/ fuel = 0
  THEN [ok |-> FALSE, nodes |-> <<>>]
  ELSE IF m[bt + 1] = 0 THEN [ok |-> TRUE, nodes |-> <<bt>>]
  ELSE LET l == ListFrom(m, bt + m[bt + 1], fuel - 1)
       IN [ok |-> l.ok, nodes |-> <<bt>> \o l.nodes]

List(h) == ListFrom(h.mem, HeadSentinel, Cardinality(DOMAIN h.mem))

\* The free list in list order, the two sentinels left out.
Listed(h) == SelectSeq(List(h).nodes, LAMBDA b : ~IsSentinel(b))

ListedSet(h) == Range(Listed(h))

\* I1: header and footer of every block of the walk hold the same word.
TagSymmetry(h) ==
  \A b \in BlockSet(h) :
    /\ FooterOf(h.mem, b) \in DOMAIN h.mem
    /\ FooterOf(h.mem, b) > b
    /\ h.mem[FooterOf(h.mem, b)] = h.mem[b]

\* I2: no two blocks consecutive by address are both free.
NoTwoFree(m, bs) ==
  \A i \in 1..(Len(bs) - 1) : ~(~TagUsed(m[bs[i]]) /\ ~TagUsed(m[bs[i + 1]]))

NoAdjacentFree(h) == NoTwoFree(h.mem, Blocks(h))

\* I3: the blocks on the free list are exactly the free blocks.
ListIs(l, freed) ==
  /\ l.ok
  /\ Range(SelectSeq(l.nodes, LAMBDA b : ~IsSentinel(b))) = freed

FreeListComplete(h) == ListIs(List(h), FreeBlocks(h))

\* I4: the walk arrives at bt_heap_last, and the word after that block is the
\* last word of the arena.
TopmostPointer(h) ==
  /\ Walk(h).ok
  /\ h.bt_heap_last + (TagSize(h.mem[h.bt_heap_last]) \div 4) = h.brk - 1

\* C1: after mm_init and after every sequence of malloc, free, realloc and
\* calloc calls, every block met by the walk by address from the first block to
\* the topmost block has a header and a footer with the same size and the same
\* in-use flag.
C1_TagSymmetry == TagSymmetry(H)

\* A state with a merged free block (32 bytes or more) next to in-use blocks.
C1_Witness ==
  /\ \E b \in FreeBlocks(H) : TagSize(mem[b]) >= 32
  /\ live # {}

\* C2: in every state in which control is back with the caller no two blocks
\* consecutive by address are both free.
C2_NoAdjacentFree == NoAdjacentFree(H)

\* C3: the blocks reached by next-offsets from the head sentinel, the sentinels
\* left out, are exactly the non-sentinel blocks of the arena whose in-use flag
\* is false.
C3_FreeListComplete == FreeListComplete(H)

\* A state with two blocks on the free list and a block in use.
C3_Witness ==
  /\ Len(Listed(H)) >= 2
  /\ live # {}

\* C4: bt_heap_last is the header of the highest-address block: the walk by
\* address from the first block lands on it, and bt_heap_last plus its size is
\* the last word of the arena.
C4_TopmostPointer == TopmostPointer(H)

\* A grown arena whose topmost block is free and is not the only block.
C4_Witness ==
  /\ bt_heap_last \in FreeBlocks(H)
  /\ live # {}
  /\ mem_brk = Limit(MaxUnits)

\* The block sizes find_fit is asked for.
FitAsk == {16, 32, 48, 64, 80}

\* The place of free block b in free-list order.
Pos(h, b) == CHOOSE i \in 1..Len(Listed(h)) : Listed(h)[i] = b

\* res is the best fit for r: a free block of at least r bytes, of minimal size
\* among these and the first of that size in list order; NULL when there is none.
IsBestFit(h, r, res) ==
  LET cands == {b \in FreeBlocks(h) : TagSize(h.mem[b]) >= r}
  IN IF cands = {} THEN res = NULL
     ELSE /\ res \in cands
          /\ \A c \in cands :
               \/ TagSize(h.mem[res]) < TagSize(h.mem[c])
               \/ TagSize(h.mem[res]) = TagSize(h.mem[c]) /\ Pos(h, res) <= Pos(h, c)

\* C5: for every free list and every block size r, find_fit(r) returns a free
\* block of size >= r of minimal size, the first of that size in list order,
\* and none exactly when no free block has size >= r.
C5_BestFit == \A r \in FitAsk : IsBestFit(H, r, find_fit(mem, r))

\* The free list holds blocks of 32, 64 and 48 bytes freed in that order (list
\* order 48, 64, 32) and find_fit(48) is the 48-byte block.
C5_Witness ==
  /\ Len(Listed(H)) = 3
  /\ TagSize(mem[Listed(H)[1]]) = 48
  /\ TagSize(mem[Listed(H)[2]]) = 64
  /\ TagSize(mem[Listed(H)[3]]) = 32
  /\ find_fit(mem, 48) = Listed(H)[1]
  /\ find_fit(mem, 32) = Listed(H)[3]

\* The in-use blocks of the arena, sentinels left out.
UsedBlocks(h) == {b \in BlockSet(h) : ~IsSentinel(b) /\ TagUsed(h.mem[b])}

\* The word after block b.
EndOf(m, b) == b + (TagSize(m[b]) \div 4)

\* Block b of heap g lies inside a free block of heap h that holds header a.
InsideFreeBlockOf(h, a, g, b) ==
  \E f \in FreeBlocks(h) :
    /\ f <= a /\ a < EndOf(h.mem, f)
    /\ f <= b /\ EndOf(g.mem, b) <= EndOf(h.mem, f)

\* The second malloc(n) of the round trip, r3, after free(p) left heap h2.
TripAgain(h2, p, r3) ==
  /\ r3.ret # NULL
  /\ r3.sbrk = "none"
  /\ r3.brk = h2.brk
  /\ InsideFreeBlockOf(h2, p - 1, r3, r3.ret - 1)

TripFreed(h2, p, n) ==
  \A ok \in BOOLEAN : TripAgain(h2, p, malloc(h2, n, ok, 0))

\* The round trip after the first malloc(n) returned r1.
TripMalloced(r1, n) ==
  r1.ret = NULL \/ TripFreed(free(AsHeap(r1), r1.ret), r1.ret, n)

RoundTrip(h, n) ==
  \A ok \in BOOLEAN : TripMalloced(malloc(h, n, ok, 0), n)

\* C6: from every reachable state and for every n, when p = malloc(n) succeeds
\* and free(p) follows, the next malloc(n) succeeds without a call of mem_sbrk,
\* leaves the arena size as it is and returns a block inside the free block
\* that free(p) left around p.
C6_RoundTrip == \A n \in TripSizes : RoundTrip(H, n)

\* ---- out of memory --------------------------------------------------------
\* The call returned NULL and left memory, bt_heap_last and the break alone.
Untouched(h, r) ==
  /\ r.ret = NULL
  /\ r.mem = h.mem
  /\ r.bt_heap_last = h.bt_heap_last
  /\ r.brk = h.brk

\* r is the result of a call in which mem_sbrk failed: nothing has changed, so
\* whatever held of the heap before the call holds after it.
FailsClean(h, r) == r.sbrk = "fail" => Untouched(h, r)

\* C7: a call of malloc, calloc or realloc in which mem_sbrk fails returns NULL
\* and leaves every word of the arena (boundary tags, list links, payloads),
\* bt_heap_last and the arena size as they were.
C7_OutOfMemory ==
  /\ \A size \in Sizes, fresh \in FreshVals :
       FailsClean(H, malloc(H, size, FALSE, fresh))
  /\ \A nmemb \in Nmembs, size \in ElemSizes, fresh \in FreshVals :
       FailsClean(H, calloc(H, nmemb, size, FALSE, fresh))
  /\ \A ptr \in live, size \in ReSizes, fresh \in FreshVals :
       FailsClean(H, realloc(H, ptr, size, FALSE, fresh))

\* A state with a free block in which malloc, calloc and realloc (on its
\* relocation path) each reach mem_sbrk and are refused.
C7_Witness ==
  /\ FreeBlocks(H) # {}
  /\ malloc(H, 24, FALSE, 0).sbrk = "fail"
  /\ calloc(H, 2, 12, FALSE, 0).sbrk = "fail"
  /\ \E ptr \in live :
       /\ realloc(H, ptr, 24, FALSE, 0).sbrk = "fail"
       /\ realloc(H, ptr, 24, FALSE, 0).ret = NULL

\* ---- realloc ----------------------------------------------------------------
\* Byte i (little endian) of the payload at p.
ByteAt(m, p, i) == (m[p + (i \div 4)] \div (256 ^ (i % 4))) % 256

Min(a, b) == IF a <= b THEN a ELSE b

\* The payload bytes of the block of payload pointer p.
UsableSize(m, p) == TagSize(m[p - 1]) - 8

SameBytes(m0, p0, m1, p1, n) ==
  \A i \in 0..(n - 1) : ByteAt(m1, p1, i) = ByteAt(m0, p0, i)

ContentKept(h, ptr, size, r) ==
  r.ret = NULL
  \/ SameBytes(h.mem, ptr, r.mem, r.ret, Min(UsableSize(h.mem, ptr), size))

\* C8: after every realloc(ptr, size) with ptr non-null and size > 0 that
\* returns a block, the first min(old usable size, size) bytes of that block
\* are the bytes that were at ptr before the call.
C8_ContentPreserved ==
  \A ptr \in live, size \in ReSizes \ {0}, ok \in BOOLEAN, fresh \in FreshVals :
    ContentKept(H, ptr, size, realloc(H, ptr, size, ok, fresh))

\* The payload of the block at p holds the caller's pattern in every word.
Patterned(m, p) ==
  \A i \in 0..((UsableSize(m, p) \div 4) - 1) : m[p + i] = Pattern(i)

\* A state in which a block full of the caller's pattern is moved by realloc,
\* and one in which such a block grows into its free successor.
C8_Witness ==
  /\ \E ptr \in live :
       /\ Patterned(mem, ptr)
       /\ realloc(H, ptr, 24, TRUE, 0).ret \notin {NULL, ptr}
  /\ \E ptr \in live :
       /\ Patterned(mem, ptr)
       /\ UsableSize(mem, ptr) = 8
       /\ realloc(H, ptr, 24, TRUE, 0).ret = ptr

\* The block size needed for a request of size bytes.
NeededSize(size) == IF size <= 8 THEN 16 ELSE 16 * ((size + 23) \div 16)

\* The block at ptr can serve a request of block size a where it is: it is
\* large enough, or it is not topmost and its successor is free and large
\* enough together with it.
FitsInPlace(h, ptr, a) ==
  \/ a <= TagSize(h.mem[ptr - 1])
  \/ /\ ptr - 1 # h.bt_heap_last
     /\ ~TagUsed(h.mem[EndOf(h.mem, ptr - 1)])
     /\ TagSize(h.mem[ptr - 1]) + TagSize(h.mem[EndOf(h.mem, ptr - 1)]) >= a

\* realloc answered with ptr itself: no arena growth, no other block taken,
\* and the block is in use and large enough.
InPlace(h, ptr, a, r) ==
  /\ r.ret = ptr
  /\ r.sbrk = "none"
  /\ r.brk = h.brk
  /\ UsedBlocks(AsHeap(r)) = UsedBlocks(h)
  /\ TagSize(r.mem[ptr - 1]) >= a

\* realloc answered with another block: it is in use and large enough, the old
\* block is inside a free block, and coalescing kept I2 if I2 held.
Relocated(h, ptr, a, r) ==
  /\ r.ret \notin {NULL, ptr}
  /\ (r.ret - 1) \in UsedBlocks(AsHeap(r))
  /\ TagSize(r.mem[r.ret - 1]) >= a
  /\ (ptr - 1) \notin UsedBlocks(AsHeap(r))
  /\ InsideFreeBlockOf(AsHeap(r), ptr - 1, h, ptr - 1)
  /\ NoAdjacentFree(h) => NoAdjacentFree(AsHeap(r))

RelocatedOrRefused(h, ptr, a, r) ==
  IF r.sbrk = "fail" THEN Untouched(h, r) ELSE Relocated(h, ptr, a, r)

SameHeap(g, h) ==
  /\ g.mem = h.mem
  /\ g.bt_heap_last = h.bt_heap_last
  /\ g.brk = h.brk

\* The call returned NULL and left heap g.
NullAnd(r, g) == r.ret = NULL /\ SameHeap(r, g)

\* Two calls with the same return value and the same heap.
SameCall(r, q) == r.ret = q.ret /\ SameHeap(r, q)

\* C10: malloc(0) returns NULL and free(NULL) returns, both leaving the state
\* as it was; realloc(ptr, 0) returns NULL and leaves the state free(ptr)
\* leaves; realloc(NULL, size) returns what malloc(size) returns and leaves the
\* state malloc(size) leaves.
C10_ZeroAndNull ==
  /\ \A ok \in BOOLEAN, fresh \in FreshVals : NullAnd(malloc(H, 0, ok, fresh), H)
  /\ SameHeap(free(H, NULL), H)
  /\ \A ptr \in live \cup {NULL}, ok \in BOOLEAN, fresh \in FreshVals :
       NullAnd(realloc(H, ptr, 0, ok, fresh), free(H, ptr))
  /\ \A size \in ReSizes, ok \in BOOLEAN, fresh \in FreshVals :
       SameCall(realloc(H, NULL, size, ok, fresh), malloc(H, size, ok, fresh))

\* A state with a block in use next to a free block: realloc(ptr, 0) merges
\* them, and realloc(NULL, 24) takes a block.
C10_Witness ==
  /\ \E ptr \in live :
       /\ FreeBlocks(H) # {}
       /\ Cardinality(FreeBlocks(free(H, ptr))) = Cardinality(FreeBlocks(H))
       /\ ~SameHeap(realloc(H, ptr, 0, TRUE, 0), H)
  /\ realloc(H, NULL, 24, TRUE, 0).ret # NULL

\* ---- block size of an allocation ------------------------------------------
\* The request sizes asked of malloc in every reachable state.
AskSizes == {1, 8, 9, 24, 25, 40}

\* r is the result of malloc(size): the block returned is in use, of exactly
\* NeededSize(size) bytes, and holds size payload bytes.
SizedExactly(size, r) ==
  r.ret = NULL
  \/ /\ TagUsed(r.mem[r.ret - 1])
     /\ TagSize(r.mem[r.ret - 1]) = NeededSize(size)
     /\ r.mem[FooterOf(r.mem, r.ret - 1)] = r.mem[r.ret - 1]
     /\ NeededSize(size) - 8 >= size

\* C11: after every successful malloc(size) with size >= 1 the block returned
\* is in use and its tag size is exactly a(size) = 16 if size <= 8, else
\* 16 * ceil((size + 8) / 16), so that its payload has at least size bytes and
\* a free block taken whole is an exact fit.
C11_AllocatedSize ==
  \A size \in AskSizes, ok \in BOOLEAN, fresh \in FreshVals :
    SizedExactly(size, malloc(H, size, ok, fresh))

\* A state with a free block of 32 bytes that malloc(24) takes whole and
\* malloc(1) splits.
C11_Witness ==
  \E b \in FreeBlocks(H) :
    /\ TagSize(mem[b]) = 32
    /\ malloc(H, 24, TRUE, 0).ret = b + 1
    /\ malloc(H, 24, TRUE, 0).sbrk = "none"
    /\ malloc(H, 1, TRUE, 0).ret = b + 1
    /\ (b + 4) \in FreeBlocks(AsHeap(malloc(H, 1, TRUE, 0)))

\* ---- calloc -----------------------------------------------------------------
\* The words that hold the first n bytes at p.
WordsOf(p, n) == p..(p + ((n + 3) \div 4) - 1)

\* r is the result of calloc with nmemb * size = n and q the result of
\* malloc(n) from the same heap: same return value, same bt_heap_last, same
\* arena; the first n bytes at the pointer are zero, they lie in the payload,
\* and every other byte of the arena is as malloc left it.
ZeroFilled(n, r, q) ==
  /\ r.ret = q.ret
  /\ r.bt_heap_last = q.bt_heap_last
  /\ r.brk = q.brk
  /\ DOMAIN r.mem = DOMAIN q.mem
  /\ IF r.ret = NULL THEN r.mem = q.mem
     ELSE /\ n <= UsableSize(r.mem, r.ret)
          /\ \A i \in 0..(n - 1) : ByteAt(r.mem, r.ret, i) = 0
          /\ \A i \in n..(4 * Cardinality(WordsOf(r.ret, n)) - 1) :
               ByteAt(r.mem, r.ret, i) = ByteAt(q.mem, r.ret, i)
          /\ \A a \in (DOMAIN r.mem) \ WordsOf(r.ret, n) : r.mem[a] = q.mem[a]

\* C12: calloc(nmemb, size) returns what malloc(nmemb * size) returns and
\* leaves every tag, every list link, bt_heap_last and the arena size as that
\* malloc leaves them; when the pointer is not NULL the first nmemb * size
\* payload bytes are zero, whatever the block held before, and no byte outside
\* them has changed.
C12_ZeroAllocate ==
  \A nmemb \in Nmembs, size \in ElemSizes, ok \in BOOLEAN, fresh \in FreshVals :
    ZeroFilled(nmemb * size, calloc(H, nmemb, size, ok, fresh),
               malloc(H, nmemb * size, ok, fresh))

\* calloc(2, 12) reuses a free block of 32 bytes that holds list offsets and
\* the pattern a caller wrote.
C12_Witness ==
  /\ malloc(H, 24, TRUE, 0).sbrk = "none"
  /\ malloc(H, 24, TRUE, 0).ret # NULL
  /\ mem[malloc(H, 24, TRUE, 0).ret] # 0
  /\ \E i \in 2..5 : mem[malloc(H, 24, TRUE, 0).ret + i] = Pattern(i)
  /\ calloc(H, 2, 12, TRUE, 0).ret = malloc(H, 24, TRUE, 0).ret

\* ---- live allocations -------------------------------------------------------
\* The payload words of the block of payload pointer p.
PayloadOf(m, p) == p..(p + (UsableSize(m, p) \div 4) - 1)

\* The words that hold allocator data: the header and footer of every block,
\* the words of the two sentinel blocks, the two offset fields of every free
\* block.
TagWords(m, bs) == bs \cup {FooterOf(m, b) : b \in bs}

SentinelWords == HeadSentinel..(TailSentinel + 3)

LinkWords(fs) == {b + 1 : b \in fs} \cup {b + 2 : b \in fs}

MetaWords(h) ==
  TagWords(h.mem, BlockSet(h)) \cup SentinelWords \cup LinkWords(FreeBlocks(h))

\* Every pointer of ps is the payload of an in-use block of used, the payloads
\* are pairwise disjoint, inside the arena and free of the words of meta.
PayloadsApart(m, ps, used, meta) ==
  /\ \A p \in ps :
       /\ (p - 1) \in used
       /\ PayloadOf(m, p) \subseteq DOMAIN m
       /\ PayloadOf(m, p) \cap meta = {}
  /\ \A p, q \in ps : p # q => PayloadOf(m, p) \cap PayloadOf(m, q) = {}

\* A pointer that malloc returns is not one the caller still holds.
ReturnsFresh(ps, r) == r.ret = NULL \/ r.ret \notin ps

\* C13: in every reachable state the payloads [p, p + block size - 8) of the
\* pointers returned and not yet released are pairwise disjoint, lie inside the
\* arena in in-use non-sentinel blocks and contain no header or footer of a
\* block, no word of a sentinel block and no offset field of a free block; and
\* a pointer that malloc returns is none of them.
C13_LiveApart ==
  /\ PayloadsApart(mem, live, UsedBlocks(H), MetaWords(H))
  /\ \A size \in Sizes, ok \in BOOLEAN, fresh \in FreshVals :
       ReturnsFresh(live, malloc(H, size, ok, fresh))

\* Two blocks held with a free block between them.
C13_Witness ==
  \E p \in live, q \in live, b \in FreeBlocks(H) : p < b /\ b < q

\* ---- free -------------------------------------------------------------------
\* The place of block b in the sequence bs.
IndexOf(bs, b) == CHOOSE i \in DOMAIN bs : bs[i] = b

\* The first word of the range that free(b) merges: the predecessor of b by
\* address when it is free, else b.
MergeLo(m, bs, i) ==
  IF i > 1 /\ ~TagUsed(m[bs[i - 1]]) THEN bs[i - 1] ELSE bs[i]

\* The word after that range: the end of the successor of b by address when
\* there is one and it is free, else the end of b.
MergeHi(m, bs, i) ==
  IF i < Len(bs) /\ ~TagUsed(m[bs[i + 1]]) THEN EndOf(m, bs[i + 1]) ELSE EndOf(m, bs[i])

\* Heap g is heap h with the words lo .. hi-1 made one free block: that block
\* is free, of (hi - lo) words, with in-use neighbours by address; the list
\* holds no block inside the range but lo; the blocks outside the range are
\* the blocks of h outside it, with the tags they had, and the payloads of the
\* blocks in use are as they were.
MergedInto(h, g, lo, hi) ==
  /\ lo \in FreeBlocks(g)
  /\ EndOf(g.mem, lo) = hi
  /\ g.mem[hi - 1] = g.mem[lo]
  /\ \A b \in BlockSet(g) :
       (EndOf(g.mem, b) = lo \/ b = hi) => TagUsed(g.mem[b])
  /\ ListedSet(g) \cap (lo..(hi - 1)) = {lo}
  /\ {b \in BlockSet(g) : b < lo \/ b >= hi} = {b \in BlockSet(h) : b < lo \/ b >= hi}
  /\ \A b \in BlockSet(h) :
       (b < lo \/ b >= hi) =>
          /\ g.mem[b] = h.mem[b]
          /\ g.mem[FooterOf(h.mem, b)] = h.mem[FooterOf(h.mem, b)]
          /\ TagUsed(h.mem[b]) /\ ~IsSentinel(b) =>
               \A a \in PayloadOf(h.mem, b + 1) : g.mem[a] = h.mem[a]
  /\ ListedSet(g) = (ListedSet(h) \ (lo..(hi - 1))) \cup {lo}
  /\ g.brk = h.brk

FreeMerges(h, bs, i, g) ==
  MergedInto(h, g, MergeLo(h.mem, bs, i), MergeHi(h.mem, bs, i))

FreeCoalesces(h, ptr) ==
  FreeMerges(h, Blocks(h), IndexOf(Blocks(h), ptr - 1), free(h, ptr))

\* C14: from a state in which no two free blocks are adjacent, free(ptr) leaves
\* the space of ptr's block in one free block whose neighbours by address are
\* in use and whose size is the size of the released block plus the sizes of
\* its free neighbours; the absorbed neighbours are off the free list and the
\* blocks outside the merged range are unchanged.
C14_FreeCoalesces ==
  NoAdjacentFree(H) => \A ptr \in live : FreeCoalesces(H, ptr)

\* A held block between two free blocks, and a held block before a free one,
\* with no two free blocks adjacent.
C14_Witness ==
  /\ NoAdjacentFree(H)
  /\ \E ptr \in live :
       /\ ~TagUsed(mem[EndOf(mem, ptr - 1)])
       /\ ptr - 1 # bt_heap_last
       /\ \E b \in FreeBlocks(H) : EndOf(mem, b) = ptr - 1

\* ---- arena growth -------------------------------------------------------------
\* No block of the free list has a bytes or more.
NoFit(h, a) == \A b \in ListedSet(h) : TagUsed(h.mem[b]) \/ TagSize(h.mem[b]) < a

\* The block in which malloc places after growth: the topmost block of h when
\* it is free, else the new region (its header is the last word of the arena
\* of h).
GrowthBlock(h) ==
  IF ~TagUsed(h.mem[h.bt_heap_last]) THEN h.bt_heap_last ELSE h.brk - 1

\* The bytes of the topmost block of h that the new region is merged with.
GrowthSlack(h) ==
  IF ~TagUsed(h.mem[h.bt_heap_last]) THEN TagSize(h.mem[h.bt_heap_last]) ELSE 0

\* r is the result of a malloc that needs a bytes and grew the arena of h: the
\* arena has a bytes more, the block returned starts where the free topmost
\* block, or else the new region, started, and what is left of the merged
\* block is one free block, the topmost.
GrewBy(h, a, r) ==
  /\ r.brk = h.brk + (a \div 4)
  /\ r.ret = GrowthBlock(h) + 1
  /\ r.mem[r.ret - 1] = a + 1
  /\ IF GrowthSlack(h) = 0
     THEN r.bt_heap_last = r.ret - 1
     ELSE /\ r.bt_heap_last = r.ret - 1 + (a \div 4)
          /\ r.mem[r.bt_heap_last] = GrowthSlack(h)
          /\ r.bt_heap_last \in FreeBlocks(AsHeap(r))
  /\ \A b \in BlockSet(h) : b < GrowthBlock(h) => r.mem[b] = h.mem[b]

\* r is the result of malloc for a needed size of a bytes.
GrowsIffNoFit(h, a, r) ==
  /\ (r.sbrk # "none") <=> NoFit(h, a)
  /\ r.sbrk = "none" => r.brk = h.brk
  /\ r.sbrk = "fail" => r.brk = h.brk
  /\ r.sbrk = "ok" => GrewBy(h, a, r)

\* C15: malloc(size), size >= 1, calls mem_sbrk exactly when no block of the
\* free list has the needed size a or more; it then asks for exactly a bytes,
\* the new region is merged with the topmost block when that block is free,
\* and the block returned is placed at the start of the resulting block.  free
\* leaves the arena size as it is, and no call makes the arena smaller.
C15_GrowthOnlyWithoutFit ==
  /\ \A size \in AskSizes, ok \in BOOLEAN, fresh \in FreshVals :
       GrowsIffNoFit(H, NeededSize(size), malloc(H, size, ok, fresh))
  /\ \A ptr \in live \cup {NULL} : free(H, ptr).brk = mem_brk
  /\ \A ptr \in live \cup {NULL}, size \in ReSizes, ok \in BOOLEAN, fresh \in FreshVals :
       realloc(H, ptr, size, ok, fresh).brk >= mem_brk
  /\ \A nmemb \in Nmembs, size \in ElemSizes, ok \in BOOLEAN, fresh \in FreshVals :
       calloc(H, nmemb, size, ok, fresh).brk >= mem_brk

\* The topmost block is free and of 16 bytes, a block of 16 bytes is held, and
\* malloc(24) grows the arena by 32 bytes while malloc(1) does not grow it.
C15_Witness ==
  /\ bt_heap_last \in FreeBlocks(H)
  /\ TagSize(mem[bt_heap_last]) = 16
  /\ live # {}
  /\ malloc(H, 24, TRUE, 0).sbrk = "ok"
  /\ malloc(H, 24, TRUE, 0).brk = mem_brk + 8
  /\ malloc(H, 1, TRUE, 0).sbrk = "none"

\* ---- the word after the topmost block ----------------------------------------
\* The words tried in place of the word after the topmost block: an in-use tag
\* of size 0 and the tag of a free block of 16 bytes.  In the heap itself the
\* word is as mem_sbrk delivered it.
TopWords == {1, 16}

\* Heap h with word v after its topmost block.
WithTopWord(h, v) == Heap([h.mem EXCEPT ![h.brk - 1] = v], h.bt_heap_last, h.brk)

\* r is the result of a call on heap h and rv the result of the same call on
\* WithTopWord(h, v): same return value, same bt_heap_last, same arena size,
\* same words; the word itself is untouched by both unless the arena grew and
\* the word became the header of the new region.
SameButTopWord(h, v, r, rv) ==
  /\ rv.ret = r.ret
  /\ rv.bt_heap_last = r.bt_heap_last
  /\ rv.brk = r.brk
  /\ rv.sbrk = r.sbrk
  /\ \A a \in (DOMAIN r.mem) \ {h.brk - 1} : rv.mem[a] = r.mem[a]
  /\ IF r.brk = h.brk
     THEN r.mem[h.brk - 1] = h.mem[h.brk - 1] /\ rv.mem[h.brk - 1] = v
     ELSE rv.mem[h.brk - 1] = r.mem[h.brk - 1]

\* free as a call with a result.
Freed(h, ptr) == Returns(free(h, ptr), NULL, "none")

TopWordIgnored(h, hv, v, ps) ==
  /\ \A ptr \in ps : SameButTopWord(h, v, Freed(h, ptr), Freed(hv, ptr))
  /\ \A size \in Sizes, ok \in BOOLEAN :
       SameButTopWord(h, v, malloc(h, size, ok, 0), malloc(hv, size, ok, 0))
  /\ \A ptr \in ps, size \in ReSizes, ok \in BOOLEAN :
       SameButTopWord(h, v, realloc(h, ptr, size, ok, 0), realloc(hv, ptr, size, ok, 0))

FrontThenRest(g, ls, was, a) ==
  /\ ls # <<>>
  /\ Head(ls) <= a /\ a < EndOf(g.mem, Head(ls))
  /\ ~TagUsed(g.mem[Head(ls)])
  /\ Tail(ls) = SelectSeq(was, LAMBDA b : b < Head(ls) \/ b >= EndOf(g.mem, Head(ls)))

FreedFirst(h, ptr, g) ==
  /\ List(g).ok
  /\ FrontThenRest(g, Listed(g), Listed(h), ptr - 1)

PlaceAsk == {16, 32, 48, 64}

\* Sequence s with every b replaced by n.
Replaced(s, b, n) == [i \in DOMAIN s |-> IF s[i] = b THEN n ELSE s[i]]

\* Sequence s without b.
Without(s, b) == SelectSeq(s, LAMBDA x : x # b)

\* g is heap h after place(b, a) split block b of c bytes: b is in use with a
\* bytes, the block after it is free with c - a bytes and ends where b ended,
\* and the list is the old list with that block in the place of b.
SplitAt(h, g, b, a, c) ==
  /\ g.mem[b] = a + 1
  /\ g.mem[b + (a \div 4) - 1] = a + 1
  /\ g.mem[b + (a \div 4)] = c - a
  /\ g.mem[b + (c \div 4) - 1] = c - a
  /\ List(g).ok
  /\ Listed(g) = Replaced(Listed(h), b, b + (a \div 4))
  /\ Blocks(g) = SelectSeq(Blocks(h), LAMBDA x : x <= b) \o <<b + (a \div 4)>>
                   \o SelectSeq(Blocks(h), LAMBDA x : x > b)

\* g is heap h after place(b, a) took block b of c bytes whole: b is in use
\* with c bytes, the blocks are the blocks of h, and the list is the old list
\* without b.
TakenWhole(h, g, b, c) ==
  /\ g.mem[b] = c + 1
  /\ g.mem[b + (c \div 4) - 1] = c + 1
  /\ List(g).ok
  /\ Listed(g) = Without(Listed(h), b)
  /\ Blocks(g) = Blocks(h)

Placed(h, g, b, a, c) ==
  IF c - a >= 16 THEN SplitAt(h, g, b, a, c) ELSE TakenWhole(h, g, b, c)

\* C18: place(block, a) on a free block of c >= a bytes: when c - a >= 16 the
\* block is in use with a bytes, the remainder is a free block of c - a bytes
\* at block + a and has the list predecessor and list successor the block had,
\* every other entry keeping its place; when c - a < 16 the block is off the
\* list and in use with its c bytes, and no block is made.
C18_PlaceSplit ==
  \A b \in FreeBlocks(H), a \in PlaceAsk :
    a <= TagSize(mem[b]) => Placed(H, place(H, b, a), b, a, TagSize(mem[b]))

\* A free list of three blocks whose second block has 48 bytes: place splits
\* it for 16 and for 32 bytes and takes it whole for 48.
C18_Witness ==
  /\ Len(Listed(H)) = 3
  /\ TagSize(mem[Listed(H)[2]]) = 48
  /\ Listed(place(H, Listed(H)[2], 32))[2] = Listed(H)[2] + 8
  /\ Len(Listed(place(H, Listed(H)[2], 48))) = 2

\* ---- free-list links ----------------------------------------------------------
\* ns is a path of next-offsets: it starts at the head sentinel and ends at the
\* tail sentinel, no node is met twice, and the prev-offset of every node but
\* the first leads to the node before it.
LinkedBothWays(m, ns) ==
  /\ ns # <<>>
  /\ ns[1] = HeadSentinel
  /\ ns[Len(ns)] = TailSentinel
  /\ m[TailSentinel + 1] = 0
  /\ Cardinality(Range(ns)) = Len(ns)
  /\ \A i \in 1..(Len(ns) - 1) :
       /\ m[ns[i + 1] + 2] # 0
       /\ ns[i + 1] + m[ns[i + 1] + 2] = ns[i]

\* C19: in every reachable state the path of next-offsets from the head
\* sentinel meets no node twice and ends at the tail sentinel, whose
\* next-offset is 0; the prev-offset of every node on it leads to the node
\* before it; and the scan of find_fit comes to an end.
C19_LinksConsistent ==
  /\ List(H).ok
  /\ LinkedBothWays(mem, List(H).nodes)
  /\ \A r \in FitAsk : find_fit(mem, r) # DIVERGED

\* A held block between two free blocks that are neighbours on the list: free
\* merges the three (coalesce case 4) and leaves a list of one block, linked
\* both ways.
C19_Witness ==
  /\ Len(Listed(H)) = 2
  /\ \E ptr \in live :
       /\ ptr - 1 # bt_heap_last
       /\ EndOf(mem, ptr - 1) \in ListedSet(H)
       /\ \E b \in ListedSet(H) : EndOf(mem, b) = ptr - 1
       /\ Len(Listed(free(H, ptr))) = 1
       /\ LinkedBothWays(free(H, ptr).mem, List(free(H, ptr)).nodes)

\* ---- block sizes and alignment -------------------------------------------------
\* The request sizes tried for alignment.
AlignAsk == {1, 9, 24}

\* Every block of the walk of h, the sentinels among them, has a size that is
\* a multiple of 16 and at least 16; the sentinels have 16 bytes and are in use.
AlignedSet(m, bs) ==
  /\ {HeadSentinel, TailSentinel} \subseteq bs
  /\ \A b \in bs : TagSize(m[b]) % 16 = 0 /\ TagSize(m[b]) >= 16
  /\ \A s \in {HeadSentinel, TailSentinel} : m[s] = 17 /\ m[s + 3] = 17

AlignedWalk(m, w) == w.ok /\ AlignedSet(m, Range(w.blocks))

BlocksAligned(h) == AlignedWalk(h.mem, Walk(h))

\* The byte offset of payload pointer p from the arena base is a multiple of 16.
PayloadAligned(p) == (4 * (p - HeapBase)) % 16 = 0

\* r is the result of a call: the heap it leaves has aligned blocks and the
\* pointer it returns is aligned.
AlignedAfter(r) ==
  /\ BlocksAligned(AsHeap(r))
  /\ r.ret = NULL \/ PayloadAligned(r.ret)

\* C20: in every reachable state, and after every malloc, realloc and calloc
\* call made in it, every block of the arena has a size that is a multiple of
\* 16 and at least 16, the two sentinel blocks have 16 bytes and are in use,
\* and every pointer held or returned lies at a multiple of 16 bytes from the
\* arena base.
C20_SizeAndAlignment ==
  /\ BlocksAligned(H)
  /\ \A p \in live : PayloadAligned(p)
  /\ \A size \in AlignAsk, ok \in BOOLEAN, fresh \in FreshVals :
       AlignedAfter(malloc(H, size, ok, fresh))
  /\ \A ptr \in live, size \in AlignAsk, fresh \in FreshVals :
       AlignedAfter(realloc(H, ptr, size, TRUE, fresh))
  /\ \A nmemb \in Nmembs, size \in ElemSizes, fresh \in FreshVals :
       AlignedAfter(calloc(H, nmemb, size, TRUE, fresh))

\* A block of 32 bytes is held and the topmost block is free with 16 bytes:
\* realloc shrinks the held block in place and malloc(9) has to grow the arena.
C20_Witness ==
  /\ bt_heap_last \in FreeBlocks(H)
  /\ TagSize(mem[bt_heap_last]) = 16
  /\ \E ptr \in live :
       /\ TagSize(mem[ptr - 1]) = 32
       /\ realloc(H, ptr, 1, TRUE, 0).ret = ptr
       /\ TagSize(realloc(H, ptr, 1, TRUE, 0).mem[ptr - 1]) = 16
  /\ malloc(H, 9, TRUE, 0).sbrk = "ok"

====
